---- MODULE Spec2Model ----
(***************************************************************************)
(* Model of kylekz/tss-server-leak.                                        *)
(*                                                                         *)
(*  - the server function $getRandomSong (routes/index.tsx): middleware,   *)
(*    the awaited db.execute(sql`SELECT 1`) probe and the random pick      *)
(*    songs[Math.floor(Math.random() * songs.length)];                     *)
(*  - the ServerFn detection pattern of the start compiler plugin, before  *)
(*    and after the patch described in SERVER_CODE_LEAK_FIX.md.            *)
(***************************************************************************)
EXTENDS Integers, Sequences, FiniteSets, TLC

(***************************************************************************)
(* Bounds                                                                  *)
(***************************************************************************)
\* number of invocations of $getRandomSong that may be in flight together
MaxInvocations == 2
\* significand width of the modelled floating point numbers (53 in a double)
MantissaBits == 4
\* a source text is a concatenation of at most this many pieces
MaxPieces == 4

Invocations == 1..MaxInvocations

(***************************************************************************)
(* The song catalog                                                        *)
(***************************************************************************)
songs ==
  << [id |-> 1, name |-> "Teenage Dirtbag",         artist |-> "Wheatus"],
     [id |-> 2, name |-> "Smells Like Teen Spirit", artist |-> "Nirvana"],
     [id |-> 3, name |-> "The Middle",              artist |-> "Jimmy Eat World"],
     [id |-> 4, name |-> "My Own Worst Enemy",      artist |-> "Lit"],
     [id |-> 5, name |-> "Fat Lip",                 artist |-> "Sum 41"],
     [id |-> 6, name |-> "All the Small Things",    artist |-> "blink-182"],
     [id |-> 7, name |-> "Beverly Hills",           artist |-> "Weezer"] >>

\* placeholder carried in the song field of a value that is not a song
NoSong == [id |-> 0, name |-> "", artist |-> ""]

\* the JavaScript value undefined, as a returned value
Undefined == [kind |-> "undefined", song |-> NoSong]

\* no value returned (yet)
NoValue == [kind |-> "none", song |-> NoSong]

\* catalogs the handler is exercised with when the catalog is an input:
\* the prefixes of songs, the empty one and songs itself included
Catalogs == { SubSeq(songs, 1, k) : k \in 0..Len(songs) }

(***************************************************************************)
(* Floating point arithmetic of the pick                                   *)
(*                                                                         *)
(* A number is held as an integer numerator over 2^MantissaBits.           *)
(***************************************************************************)
RECURSIVE Pow2(_)
Pow2(n) == IF n = 0 THEN 1 ELSE 2 * Pow2(n - 1)

One == Pow2(MantissaBits)

RECURSIVE BitLength(_)
BitLength(n) == IF n = 0 THEN 0 ELSE 1 + BitLength(n \div 2)

\* round a numerator to MantissaBits significant bits, ties to even
RoundToNearest(n) ==
  IF BitLength(n) <= MantissaBits
  THEN n
  ELSE LET shift == BitLength(n) - MantissaBits
           unit  == Pow2(shift)
           q     == n \div unit
           rem   == n % unit
           up    == (2 * rem > unit) \/ (2 * rem = unit /\ q % 2 = 1)
       IN  IF up THEN (q + 1) * unit ELSE q * unit

\* Math.random(): a number r with 0 <= r < 1
MathRandom == 0..(One - 1)

\* r * n, the product of a number and an integer, rounded
Times(r, n) == RoundToNearest(r * n)

\* Math.ceil(x)
MathCeil(x) == (x + One - 1) \div One

\* Math.floor(x)
MathFloor(x) == x \div One

\* Math.floor(Math.random() * (songs.length - 1))
PickIndexShort(r, len) == MathFloor(Times(r, len - 1))

\* Math.floor(Math.random() * songs.length), for the draw r and the length len
PickIndex(r, len) == MathFloor(Times(r, len))

\* arr[idx]: the element at the zero-based index, undefined out of range
ArrayGet(arr, idx) ==
  IF idx + 1 \in DOMAIN arr
  THEN [kind |-> "song", song |-> arr[idx + 1]]
  ELSE Undefined

\* songs[Math.floor(Math.random() * songs.length)]
PickSong(arr, r) == ArrayGet(arr, PickIndex(r, Len(arr)))

(***************************************************************************)
(* The liveness probe                                                      *)
(***************************************************************************)
\* what db.execute may reject with
ProbeErrors == {"StoreUnreachable", "Timeout"}
NoError == "none"
NoDraw == -1

(***************************************************************************)
(* KindDetectionPatterns.ServerFn of the start compiler plugin             *)
(*                                                                         *)
(* A text is a sequence of characters.                                     *)
(***************************************************************************)
handler == <<"h", "a", "n", "d", "l", "e", "r">>

\* the pieces source texts are put together from
Pieces ==
  { <<".">>, handler, <<"h", "a", "n", "d", "l", "e">>, <<"r">>,
    <<" ">>, <<"\n">>, <<"(">>, <<"x">> }

RECURSIVE Flatten(_)
Flatten(ps) == IF ps = << >> THEN << >> ELSE Head(ps) \o Flatten(Tail(ps))

Texts ==
  { Flatten(ps) : ps \in UNION { [1..n -> Pieces] : n \in 0..MaxPieces } }

\* the character class \s
IsSpace(c) == c \in {" ", "\n", "\t", "\r"}

\* \s* : every character of t[from..to] is white space (to < from: none)
AllSpace(t, from, to) == \A p \in from..to : IsSpace(t[p])

\* the literal lit stands in t at position pos
LiteralAt(t, pos, lit) ==
  /\ pos >= 1
  /\ pos + Len(lit) - 1 <= Len(t)
  /\ \A k \in 1..Len(lit) : t[pos + k - 1] = lit[k]

\* \s*\( matches in t from position pos on
SpacesThenParen(t, pos) ==
  \E e \in pos..Len(t) : AllSpace(t, pos, e - 1) /\ t[e] = "("

\* /\.handler\s*\(/.test(t)
ServerFnOriginal(t) ==
  \E s \in 1..Len(t) :
    /\ t[s] = "."
    /\ LiteralAt(t, s + 1, handler)
    /\ SpacesThenParen(t, s + 1 + Len(handler))

\* /\.\s+handler\s*\(/.test(t)
ServerFnPatchedPlus(t) ==
  \E s \in 1..Len(t) :
    /\ t[s] = "."
    /\ \E h \in (s + 2)..Len(t) :
         /\ AllSpace(t, s + 1, h - 1)
         /\ LiteralAt(t, h, handler)
         /\ SpacesThenParen(t, h + Len(handler))

\* /\.\s*handler\s*\(/.test(t)
ServerFnPatched(t) ==
  \E s \in 1..Len(t) :
    /\ t[s] = "."
    /\ \E h \in (s + 1)..Len(t) :
         /\ AllSpace(t, s + 1, h - 1)
         /\ LiteralAt(t, h, handler)
         /\ SpacesThenParen(t, h + Len(handler))

\* the position of the '.' that opens the line begun at t[1] = "\n"
\* (blanks of indentation may stand before it), 0 when there is none
LeadingDot(t) ==
  IF Len(t) >= 2 /\ t[1] = "\n" /\
     \E k \in 2..Len(t) : t[k] = "." /\ \A p \in 2..(k - 1) : t[p] = " "
  THEN CHOOSE k \in 2..Len(t) : t[k] = "." /\ \A p \in 2..(k - 1) : t[p] = " "
  ELSE 0

\* the reformatting of the transform pipeline: a '.' that opens a line is
\* moved to the end of the line before it, the indentation is dropped
RECURSIVE Reformatted(_)
Reformatted(t) ==
  IF Len(t) < 2 THEN t
  ELSE IF LeadingDot(t) > 0
       THEN <<".", "\n">> \o Reformatted(SubSeq(t, LeadingDot(t) + 1, Len(t)))
       ELSE <<t[1]>> \o Reformatted(Tail(t))

(***************************************************************************)
(* State                                                                   *)
(***************************************************************************)
VARIABLES
  catalog,   \* the module level array songs
  inv,       \* inv[i]: the state of invocation i of $getRandomSong
  code,      \* the source text handed to the compiler plugin
  stage,     \* position of the text in the transform pipeline
  detected   \* what the ServerFn patterns answered for the text

vars == <<catalog, inv, code, stage, detected>>

IdleInvocation ==
  [ pc         |-> "Idle",
    user       |-> 0,
    probe      |-> "none",
    probeError |-> NoError,
    probes     |-> 0,
    draw       |-> NoDraw,
    returned   |-> NoValue,
    thrown     |-> NoError ]

NoDetection == [original |-> FALSE, patched |-> FALSE]

PickerInit ==
  /\ inv = [i \in Invocations |-> IdleInvocation]
  /\ code = << >>
  /\ stage = "off"
  /\ detected = NoDetection

Init ==
  /\ catalog = songs
  /\ PickerInit

\* the handler with the catalog as its input
InitCatalog ==
  /\ catalog \in Catalogs
  /\ PickerInit

(***************************************************************************)
(* $getRandomSong                                                          *)
(***************************************************************************)
\* the context authMiddleware passes to next()
authMiddleware == 1

\* the call with the await left out: the handler returns the pick at once
InvokeNoAwait(i) ==
  /\ inv[i].pc = "Idle"
  /\ \E r \in MathRandom :
       inv' = [inv EXCEPT ![i] = [@ EXCEPT !.pc = "Picked",
                                           !.user = authMiddleware,
                                           !.probe = "pending",
                                           !.probes = @ + 1,
                                           !.draw = r,
                                           !.returned = PickSong(catalog, r)]]
  /\ UNCHANGED <<catalog, code, stage, detected>>

\* the call: the middleware runs, then the handler up to its await
Invoke(i) ==
  /\ inv[i].pc = "Idle"
  /\ inv' = [inv EXCEPT ![i] = [@ EXCEPT !.pc = "Checking",
                                         !.user = authMiddleware,
                                         !.probe = "pending",
                                         !.probes = @ + 1]]
  /\ UNCHANGED <<catalog, code, stage, detected>>

\* db.execute resolves
ProbeResolve(i) ==
  /\ inv[i].probe = "pending"
  /\ inv' = [inv EXCEPT ![i] = [@ EXCEPT !.probe = "resolved"]]
  /\ UNCHANGED <<catalog, code, stage, detected>>

\* db.execute rejects
ProbeReject(i) ==
  /\ inv[i].probe = "pending"
  /\ \E e \in ProbeErrors :
       inv' = [inv EXCEPT ![i] = [@ EXCEPT !.probe = "rejected",
                                           !.probeError = e]]
  /\ UNCHANGED <<catalog, code, stage, detected>>

\* the catalog without its element at the zero-based index idx
Spliced(arr, idx) ==
  IF idx + 1 \in DOMAIN arr
  THEN SubSeq(arr, 1, idx) \o SubSeq(arr, idx + 2, Len(arr))
  ELSE arr

\* return songs.splice(index, 1)[0]
HandlerReturnSplice(i) ==
  /\ inv[i].pc = "Checking"
  /\ inv[i].probe = "resolved"
  /\ \E r \in MathRandom :
       /\ inv' = [inv EXCEPT ![i] = [@ EXCEPT !.pc = "Picked",
                                             !.draw = r,
                                             !.returned = PickSong(catalog, r)]]
       /\ catalog' = Spliced(catalog, PickIndex(r, Len(catalog)))
  /\ UNCHANGED <<code, stage, detected>>

\* the pick kept in a module level cache: a later invocation returns the
\* song an earlier one picked
HandlerReturnCached(i) ==
  /\ inv[i].pc = "Checking"
  /\ inv[i].probe = "resolved"
  /\ \E r \in MathRandom :
       inv' = [inv EXCEPT ![i] =
                 [@ EXCEPT !.pc = "Picked",
                           !.draw = r,
                           !.returned =
                             IF \E j \in Invocations : inv[j].pc = "Picked"
                             THEN inv[CHOOSE j \in Invocations :
                                        inv[j].pc = "Picked"].returned
                             ELSE PickSong(catalog, r)]]
  /\ UNCHANGED <<catalog, code, stage, detected>>

\* a second await before the return: the probe is issued again
HandlerReturnAwaitAgain(i) ==
  /\ inv[i].pc = "Checking"
  /\ inv[i].probe = "resolved"
  /\ IF inv[i].probes < 2
     THEN inv' = [inv EXCEPT ![i] = [@ EXCEPT !.probe = "pending",
                                             !.probes = @ + 1]]
     ELSE \E r \in MathRandom :
            inv' = [inv EXCEPT ![i] = [@ EXCEPT !.pc = "Picked",
                                                !.draw = r,
                                                !.returned = PickSong(catalog, r)]]
  /\ UNCHANGED <<catalog, code, stage, detected>>

\* the handler resumes after a resolved await and returns the pick
HandlerReturn(i) ==
  /\ inv[i].pc = "Checking"
  /\ inv[i].probe = "resolved"
  /\ \E r \in MathRandom :
       inv' = [inv EXCEPT ![i] = [@ EXCEPT !.pc = "Picked",
                                           !.draw = r,
                                           !.returned = PickSong(catalog, r)]]
  /\ UNCHANGED <<catalog, code, stage, detected>>

\* try { await ... } catch {} : the rejection is swallowed, a song returned
HandlerSwallow(i) ==
  /\ inv[i].pc = "Checking"
  /\ inv[i].probe = "rejected"
  /\ \E r \in MathRandom :
       inv' = [inv EXCEPT ![i] = [@ EXCEPT !.pc = "Picked",
                                           !.draw = r,
                                           !.returned = PickSong(catalog, r)]]
  /\ UNCHANGED <<catalog, code, stage, detected>>

\* the probe is tried a second time before the rejection is rethrown
HandlerRetry(i) ==
  /\ inv[i].pc = "Checking"
  /\ inv[i].probe = "rejected"
  /\ IF inv[i].probes < 2
     THEN inv' = [inv EXCEPT ![i] = [@ EXCEPT !.probe = "pending",
                                             !.probeError = NoError,
                                             !.probes = @ + 1]]
     ELSE inv' = [inv EXCEPT ![i] = [@ EXCEPT !.pc = "Failed",
                                             !.thrown = inv[i].probeError]]
  /\ UNCHANGED <<catalog, code, stage, detected>>

\* the handler resumes after a rejected await: the rejection is rethrown
HandlerThrow(i) ==
  /\ inv[i].pc = "Checking"
  /\ inv[i].probe = "rejected"
  /\ inv' = [inv EXCEPT ![i] = [@ EXCEPT !.pc = "Failed",
                                         !.thrown = inv[i].probeError]]
  /\ UNCHANGED <<catalog, code, stage, detected>>

Next ==
  \E i \in Invocations :
    \/ Invoke(i)
    \/ ProbeResolve(i)
    \/ ProbeReject(i)
    \/ HandlerReturn(i)
    \/ HandlerThrow(i)

Spec == Init /\ [][Next]_vars

SpecCatalog == InitCatalog /\ [][Next]_vars

\* the continuation of a settled await is a queued job: it is run
Fairness ==
  \A i \in Invocations :
    WF_vars(HandlerReturn(i)) /\ WF_vars(HandlerThrow(i))

FairSpec == Spec /\ Fairness

(***************************************************************************)
(* The compiler plugin                                                     *)
(***************************************************************************)
InitPlugin ==
  /\ catalog = songs
  /\ inv = [i \in Invocations |-> IdleInvocation]
  /\ code \in Texts
  /\ stage = "source"
  /\ detected = NoDetection

\* an earlier transform of the pipeline reformats the text
Reformat ==
  /\ stage = "source"
  /\ code' = Reformatted(code)
  /\ stage' = "reformatted"
  /\ UNCHANGED <<catalog, inv, detected>>

\* the plugin tests the text it received against the ServerFn pattern
Detect ==
  /\ stage \in {"source", "reformatted"}
  /\ detected' = [original |-> ServerFnOriginal(code),
                  patched  |-> ServerFnPatched(code)]
  /\ stage' = "detected"
  /\ UNCHANGED <<catalog, inv, code>>

NextPlugin == Reformat \/ Detect

SpecPlugin == InitPlugin /\ [][NextPlugin]_vars

(***************************************************************************)
(* Properties                                                              *)
(***************************************************************************)
Terminal(i) == inv[i].pc \in {"Picked", "Failed"}

\* the value is a song of the catalog: its id is a catalog id and its name
\* and artist are those of the catalog entry with that id
InCatalog(v) ==
  /\ v.kind = "song"
  /\ \E k \in DOMAIN catalog :
       /\ catalog[k].id = v.song.id
       /\ catalog[k].name = v.song.name
       /\ catalog[k].artist = v.song.artist

\* C1: with a resolved probe and a non-empty catalog, an invocation never
\* fails and every value it returns is an entry of the catalog.
C1_ReturnsCatalogEntry ==
  \A i \in Invocations :
    (inv[i].probe = "resolved" /\ Len(catalog) > 0) =>
      /\ inv[i].pc # "Failed"
      /\ inv[i].thrown = NoError
      /\ inv[i].pc = "Picked" => InCatalog(inv[i].returned)

\* the largest draw has returned the last song of the catalog
C1_Witness ==
  \E i \in Invocations :
    /\ inv[i].pc = "Picked"
    /\ inv[i].draw = One - 1
    /\ inv[i].returned = [kind |-> "song", song |-> songs[Len(songs)]]

\* C2: an invocation whose probe was rejected returns no song and draws no
\* random number; it ends with the rejection of the probe thrown to the caller.
C2_RejectedProbeNoSong ==
  \A i \in Invocations :
    inv[i].probe = "rejected" =>
      /\ inv[i].pc \in {"Checking", "Failed"}
      /\ inv[i].returned = NoValue
      /\ inv[i].draw = NoDraw
      /\ inv[i].pc = "Failed" =>
           (inv[i].thrown \in ProbeErrors /\ inv[i].thrown = inv[i].probeError)

C2_Witness ==
  \E i \in Invocations :
    /\ inv[i].pc = "Failed"
    /\ inv[i].probe = "rejected"
    /\ inv[i].thrown = "Timeout"

C4_Transition(i) ==
  /\ inv'[i].pc # inv[i].pc =>
       \/ inv[i].pc = "Idle" /\ inv'[i].pc = "Checking"
       \/ /\ inv[i].pc = "Checking"
          /\ inv'[i].pc = "Picked"
          /\ inv[i].probe = "resolved"
       \/ /\ inv[i].pc = "Checking"
          /\ inv'[i].pc = "Failed"
          /\ inv[i].probe = "rejected"
  /\ Terminal(i) => inv'[i].pc = inv[i].pc
  /\ inv'[i].returned.kind # "none" =>
       (inv'[i].pc = "Picked" /\ inv'[i].probe = "resolved")

C4_StateMachine == [][\A i \in Invocations : C4_Transition(i)]_vars

\* one invocation has ended in Picked, another in Failed
C4_Witness ==
  \E i, j \in Invocations :
    /\ inv[i].pc = "Picked" /\ inv[i].probe = "resolved"
    /\ inv[j].pc = "Failed" /\ inv[j].probe = "rejected"

\* C5: the catalog keeps its initial ordered contents whatever the
\* invocations do.
C5_CatalogReadOnly ==
  /\ catalog = songs
  /\ Len(catalog) = 7
  /\ \A k \in DOMAIN catalog : catalog[k].id = k

\* every invocation has ended, one of them with a song
C5_Witness ==
  /\ \A i \in Invocations : Terminal(i)
  /\ \E i \in Invocations : inv[i].returned.kind = "song"

\* C6: an invocation issues the probe exactly once; after a rejected probe
\* its next step fails it with the rejection itself, without a second probe
\* and without a value.
C6_ProbeOnce ==
  \A i \in Invocations :
    /\ inv[i].probes = (IF inv[i].pc = "Idle" THEN 0 ELSE 1)
    /\ inv[i].pc = "Failed" =>
         /\ inv[i].thrown = inv[i].probeError
         /\ inv[i].returned = NoValue

C6_FailsAtOnce(i) ==
  (inv[i].probe = "rejected" /\ inv'[i] # inv[i]) =>
    /\ inv'[i].pc = "Failed"
    /\ inv'[i].thrown = inv[i].probeError
    /\ inv'[i].probes = inv[i].probes
    /\ inv'[i].probe = "rejected"
    /\ inv'[i].returned = NoValue

C6_NoRetry ==
  /\ []C6_ProbeOnce
  /\ [][\A i \in Invocations : C6_FailsAtOnce(i)]_vars

\* a probe was rejected with one error while another invocation awaits its own
C6_Witness ==
  \E i, j \in Invocations :
    /\ inv[i].pc = "Failed" /\ inv[i].thrown = "StoreUnreachable"
    /\ inv[i].probes = 1
    /\ inv[j].probe = "pending"

\* C7: the outcome of an invocation is a function of its own probe result
\* and its own draw, and a step of one invocation changes no other one.
C7_OwnOutcome ==
  \A i \in Invocations :
    /\ inv[i].pc = "Picked" =>
         /\ inv[i].probe = "resolved"
         /\ inv[i].returned = PickSong(catalog, inv[i].draw)
    /\ inv[i].pc = "Failed" =>
         /\ inv[i].probe = "rejected"
         /\ inv[i].thrown = inv[i].probeError

C7_Frame ==
  \A i, j \in Invocations :
    (i # j /\ inv'[i] # inv[i]) => inv'[j] = inv[j]

C7_Independent == []C7_OwnOutcome /\ [][C7_Frame]_vars

\* an invocation has returned its own pick while another one still awaits
\* its probe
C7_Witness ==
  \E i, j \in Invocations :
    /\ inv[i].pc = "Checking" /\ inv[i].probe = "pending"
    /\ inv[j].pc = "Picked" /\ inv[j].returned = PickSong(catalog, inv[j].draw)

\* C8: with a catalog of K >= 1 entries, for an invocation whose probe
\* resolved and each of the K entries there is a draw of Math.random() with
\* which the handler returns that entry, whatever the other invocations
\* returned.
C8_EveryEntryPossible ==
  \A i \in Invocations :
    (inv[i].pc = "Checking" /\ inv[i].probe = "resolved") =>
      \A k \in 1..Len(catalog) :
        \E r \in MathRandom :
          PickSong(catalog, r) = [kind |-> "song", song |-> catalog[k]]

\* two invocations have returned the same song, the last of the catalog
C8_Witness ==
  /\ Len(catalog) >= 2
  /\ \E i, j \in Invocations :
       /\ i # j
       /\ inv[i].pc = "Picked" /\ inv[j].pc = "Picked"
       /\ inv[i].returned = inv[j].returned
       /\ inv[i].returned.song = catalog[Len(catalog)]

\* C9: an invocation whose probe has settled ends in Picked or Failed; it is
\* suspended only while its probe is pending, and its first step after the
\* probe settled is the one that ends it.
C9_Settled(i) == inv[i].probe \in {"resolved", "rejected"}

C9_OnlyAwaitSuspends ==
  \A i \in Invocations :
    inv[i].pc = "Checking" => inv[i].probe \in {"pending", "resolved", "rejected"}

C9_NoSecondWait(i) ==
  (C9_Settled(i) /\ inv'[i] # inv[i]) => inv'[i].pc \in {"Picked", "Failed"}

C9_Terminates ==
  /\ \A i \in Invocations : C9_Settled(i) ~> Terminal(i)
  /\ []C9_OnlyAwaitSuspends
  /\ [][\A i \in Invocations : C9_NoSecondWait(i)]_vars

\* one invocation has ended while the settled probe of another one has not
\* been acted on yet
C9_Witness ==
  \E i, j \in Invocations :
    /\ inv[i].pc = "Picked"
    /\ inv[j].pc = "Checking" /\ inv[j].probe = "rejected"

\* the text is one handler call whose '.' and 'handler' are separated by
\* white space
IsSplitCall(t) ==
  /\ Len(t) >= Len(handler) + 3
  /\ t[1] = "."
  /\ t[Len(t)] = "("
  /\ LiteralAt(t, Len(t) - Len(handler), handler)
  /\ AllSpace(t, 2, Len(t) - Len(handler) - 1)

\* C10: every text the original pattern detects is detected by the patched
\* pattern, and a handler call with white space between '.' and 'handler'
\* is detected by the patched pattern and not by the original one.
C10_PatchedCoversOriginal ==
  stage = "detected" =>
    /\ detected.original => detected.patched
    /\ IsSplitCall(code) => (detected.patched /\ ~detected.original)

\* the reformatted call '.\nhandler(' went through the detection
C10_Witness ==
  /\ stage = "detected"
  /\ code = <<".", "\n">> \o handler \o <<"(">>
  /\ detected.patched
  /\ ~detected.original

TypeOK ==
  /\ catalog \in Catalogs
  /\ \A i \in Invocations :
       /\ inv[i].pc \in {"Idle", "Checking", "Picked", "Failed"}
       /\ inv[i].probe \in {"none", "pending", "resolved", "rejected"}
       /\ inv[i].probes \in 0..1
  /\ stage \in {"off", "source", "reformatted", "detected"}

====
